---- MODULE Spec2Model ----
(***************************************************************************)
(* Presence detection and dispatch controller of face-detection/pi-face.py *)
(*                                                                         *)
(* Two threads: the acquisition loop (main) and the DetectorWorker thread. *)
(* They share the two queue.Queue(maxsize=1) slots q and out and the       *)
(* stop_flag.  Every access to a shared object is a step of its own, so    *)
(* the check-then-put sequences of submit and run are interleaved freely.  *)
(* Time is the wall clock read by time.time(); it advances between steps.  *)
(***************************************************************************)
EXTENDS Integers, Sequences, FiniteSets, TLC

\* ---- program constants (scaled: similarities are in hundredths) ----
SIM_THRESH == 48
DETECT_INTERVAL == 12
POS_STREAK == 2
NEG_STREAK == 6
ABSENT_TIMEOUT_SEC == 10 * 60
LIVEKIT_ENABLED == TRUE

\* ---- bounds of the model ----
\* the clock is observed to advance this many times
MaxTicks == 2
\* frames accepted by submit are numbered modulo this
NumFrameIds == 4

\* similarity scores the matcher can compute for an embedding (hundredths)
SimValues == {SIM_THRESH - 1, SIM_THRESH}

\* the absence marker put on the output queue (Python None)
None == -1

\* self.app.get(frame_small) raising an exception, as an extraction outcome
Raises == -2

Min(a, b) == IF a < b THEN a ELSE b

\* seconds of wall clock between two observations of the clock: half the
\* timeout, so that an absence of exactly ABSENT_TIMEOUT_SEC is observed
TickSec == ABSENT_TIMEOUT_SEC \div 2
MaxNow == MaxTicks * TickSec

VARIABLES
    pc,               \* position of the acquisition loop in main()
    wpc,              \* position of DetectorWorker.run
    q,                \* worker.q   : sequence of frame ids
    out,              \* worker.out : sequence of [id, emb]
    stop_flag,        \* worker.stop_flag
    cap_released,     \* cap.release() has been called
    small,            \* the downscaled frame being submitted (-1: none)
    next_id,          \* number given to the next frame submit accepts
    frame_small,      \* the frame the worker took from q (-1: none)
    result,           \* what the worker is about to publish (<<>>: nothing)
    present, pos_hits, neg_hits,
    last_absent_time, dispatch_ready,
    frame_i,          \* frame_i modulo DETECT_INTERVAL
    agent_process,    \* AGENT_PROCESS: "None" or "proc"
    now,              \* wall clock, seconds since process start
    \* ---- observation of the run (history, not program state) ----
    match_run,        \* number of trailing consumed outcomes that were Match
    miss_run,         \* number of trailing consumed outcomes that were Miss
    epoch,            \* what happened since the last dispatch
    cyc,              \* what the current acquisition cycle has done so far
    wlast,            \* what the worker did with its last result
    owed              \* accepted frames not yet consumed, dropped or lost

vars == << pc, wpc, q, out, stop_flag, cap_released, small, next_id, frame_small,
           result, present, pos_hits, neg_hits, last_absent_time, dispatch_ready,
           frame_i, agent_process, now, match_run, miss_run,
           epoch, cyc, wlast, owed >>

mainVars == << present, pos_hits, neg_hits, last_absent_time, dispatch_ready >>
histVars == << match_run, miss_run, epoch >>
workerVars == << wpc, frame_small, result, wlast >>

\* the record of a cycle that has done nothing yet
NoCycle == [took |-> "no", trans |-> "none", armed |-> FALSE, late |-> FALSE,
            fired |-> 0, launch |-> "none", prev |-> "none", rearm |-> FALSE,
            submit |-> "none", id |-> -1]

\* a queue built with room for two items
QMaxSizeTwo == 1 + 1

\* queue.Queue(maxsize=1)
QMaxSize == 1

\* a submit that does not look at the queue before putting
QFullNever(s) == FALSE

\* a queue that always says it is full
QFullAlways(s) == TRUE

\* queue.Queue.full()
QFull(s) == Len(s) >= QMaxSize

\* keep-latest instead of drop-if-full: the new item replaces the held one
DiscardOld(s, x) == << x >>

\* drop-if-full: nothing is done with the new item x, and the queue keeps
\* what it holds
Discard(s, x) == s

\* a get that leaves in the queue the item it returns
QGetKeeps(s) == s

\* queue.Queue.get and get_nowait: what the queue holds after the get, the
\* item returned being its oldest
QGet(s) == Tail(s)

\* the identity matcher's verdict on a similarity score
IsMatch(sim) == sim >= SIM_THRESH

\* a start with dispatch_ready = False
InitDisarmed ==
    /\ pc = "read"
    /\ wpc = "check"
    /\ q = << >>
    /\ out = << >>
    /\ stop_flag = FALSE
    /\ cap_released = FALSE
    /\ small = -1
    /\ next_id = 0
    /\ frame_small = -1
    /\ result = << >>
    /\ present = FALSE
    /\ pos_hits = 0
    /\ neg_hits = 0
    /\ last_absent_time = 0
    /\ dispatch_ready = FALSE
    /\ frame_i = 0
    /\ agent_process = "None"
    /\ now = 0
    /\ match_run = 0
    /\ miss_run = 0
    /\ epoch = "start"
    /\ cyc = NoCycle
    /\ wlast = "none"
    /\ owed = 0

\* the state when main() enters its loop, the worker thread started
Init ==
    /\ pc = "read"
    /\ wpc = "check"
    /\ q = << >>
    /\ out = << >>
    /\ stop_flag = FALSE
    /\ cap_released = FALSE
    /\ small = -1
    /\ next_id = 0
    /\ frame_small = -1
    /\ result = << >>
    /\ present = FALSE
    /\ pos_hits = 0
    /\ neg_hits = 0
    /\ last_absent_time = 0
    /\ dispatch_ready = TRUE
    /\ frame_i = 0
    /\ agent_process = "None"
    /\ now = 0
    /\ match_run = 0
    /\ miss_run = 0
    /\ epoch = "start"
    /\ cyc = NoCycle
    /\ wlast = "none"
    /\ owed = 0

\* ------------------------------------------------------------ the clock
Tick ==
    /\ now + TickSec <= MaxNow
    /\ now' = now + TickSec
    /\ UNCHANGED << pc, wpc, q, out, stop_flag, cap_released, small, next_id,
                    frame_small, result, present, pos_hits, neg_hits,
                    last_absent_time, dispatch_ready, frame_i, agent_process,
                    match_run, miss_run, epoch, cyc, wlast, owed >>

\* ------------------------------------------------- the acquisition loop
\* cap.read() giving a frame; every DETECT_INTERVAL-th frame is downscaled and
\* handed to worker.submit, whose first step is the test q.full().
\* The frames submit accepts are numbered in the order of their acceptance,
\* modulo ids; a frame that finds q full would have been the next_id-th.
MainRead(ids) ==
    /\ pc = "read"
    /\ IF frame_i % DETECT_INTERVAL = 0
       THEN IF QFull(q)
            THEN /\ small' = -1
                 /\ q' = Discard(q, next_id)
                 /\ cyc' = [NoCycle EXCEPT !.submit = "dropped"]
                 /\ pc' = "take"
                 /\ UNCHANGED next_id
            ELSE /\ small' = next_id
                 /\ next_id' = (next_id + 1) % ids
                 /\ cyc' = [NoCycle EXCEPT !.submit = "put"]
                 /\ pc' = "put"
                 /\ UNCHANGED q
       ELSE /\ cyc' = [NoCycle EXCEPT !.submit = "skip"]
            /\ pc' = "take"
            /\ UNCHANGED << q, small, next_id >>
    /\ UNCHANGED << out, stop_flag, cap_released, frame_i, agent_process, now,
                    owed >>
    /\ UNCHANGED mainVars
    /\ UNCHANGED histVars
    /\ UNCHANGED workerVars

\* "continue" in the place of "break": the loop goes on after a failed read
AfterReadFailContinues == "take"

\* "if not ok: ... break": where the loop goes after a failed read
AfterReadFail == "shutdown"

\* cap.read() giving ok = False: "Camera read failed." and break
MainReadFail ==
    /\ pc = "read"
    /\ pc' = AfterReadFail
    /\ cyc' = [NoCycle EXCEPT !.submit = "readfail"]
    /\ UNCHANGED << q, out, stop_flag, cap_released, small, next_id, frame_i,
                    agent_process, now, owed >>
    /\ UNCHANGED mainVars
    /\ UNCHANGED histVars
    /\ UNCHANGED workerVars

\* self.q.put(frame_small): Queue.put waits while the queue is full
MainPut ==
    /\ pc = "put"
    /\ Len(q) < QMaxSize
    /\ q' = Append(q, small)
    /\ owed' = owed + 1
    /\ small' = -1
    /\ pc' = "take"
    /\ UNCHANGED << out, stop_flag, cap_released, next_id, frame_i, agent_process,
                    now, cyc >>
    /\ UNCHANGED mainVars
    /\ UNCHANGED histVars
    /\ UNCHANGED workerVars

\* a miss that leaves pos_hits as it is
PosAfterKeeps(emb, p) ==
    IF emb = None THEN p
    ELSE IF IsMatch(emb) THEN Min(POS_STREAK, p + 1) ELSE p

\* the counters after consuming the output-queue item emb
PosAfter(emb, p) ==
    IF emb = None THEN 0
    ELSE IF IsMatch(emb) THEN Min(POS_STREAK, p + 1) ELSE 0

NegAfter(emb, n) ==
    IF emb = None THEN Min(NEG_STREAK, n + 1)
    ELSE IF IsMatch(emb) THEN 0 ELSE Min(NEG_STREAK, n + 1)

\* an empty output queue counted as a miss
NegOnEmptyCounts(n) == Min(NEG_STREAK, n + 1)

\* "except queue.Empty: pass": neg_hits after a get_nowait that found out
\* empty
NegOnEmpty(n) == n

\* the longest run the history counters distinguish
MaxRun == NEG_STREAK

\* launch_agent() without its try/except: an exception of Popen gets out
LaunchAgentRaises(proc, running, popen_ok) ==
    IF ~LIVEKIT_ENABLED THEN [proc |-> proc, outcome |-> "disabled", raised |-> FALSE]
    ELSE IF proc # "None" /\ running
         THEN [proc |-> proc, outcome |-> "already", raised |-> FALSE]
         ELSE IF popen_ok
              THEN [proc |-> "proc", outcome |-> "launched", raised |-> FALSE]
              ELSE [proc |-> proc, outcome |-> "failed", raised |-> TRUE]

\* launch_agent(): what it does given AGENT_PROCESS, the answer of poll() and
\* whether subprocess.Popen succeeds; an exception of Popen is caught inside
LaunchAgent(proc, running, popen_ok) ==
    IF ~LIVEKIT_ENABLED THEN [proc |-> proc, outcome |-> "disabled", raised |-> FALSE]
    ELSE IF proc # "None" /\ running
         THEN [proc |-> proc, outcome |-> "already", raised |-> FALSE]
         ELSE IF popen_ok
              THEN [proc |-> "proc", outcome |-> "launched", raised |-> FALSE]
              ELSE [proc |-> proc, outcome |-> "failed", raised |-> FALSE]

\* present on the first positive
GoesPresentOnOne(p, ph) == ~p /\ ph >= 1

\* presence that asks for more matches than pos_hits can count
GoesPresentLate(p, ph) == ~p /\ ph > POS_STREAK

\* "if not present and pos_hits >= POS_STREAK"
GoesPresent(p, ph) == ~p /\ ph >= POS_STREAK

\* absent one miss early
GoesAbsentEarly(p, nh) == p /\ nh >= NEG_STREAK - 1

\* "elif present and neg_hits >= NEG_STREAK"
GoesAbsent(p, nh) == p /\ nh >= NEG_STREAK

\* a dispatch on every transition to present, ready or not
DispatchesAlways(p, ph, ready) == ~p /\ ph >= POS_STREAK

\* "if dispatch_ready:" inside the transition to present: launch_agent() is
\* called
Dispatches(p, ph, ready) == GoesPresent(p, ph) /\ ready

\* a re-arm that does not ask for absence
RearmsWhilePresent(p, ready, t, last) == ~ready /\ (t - last) >= ABSENT_TIMEOUT_SEC

\* "if not present and not dispatch_ready and
\*     (time.time() - last_absent_time) >= ABSENT_TIMEOUT_SEC"
Rearms(p, ready, t, last) == ~p /\ ~ready /\ (t - last) >= ABSENT_TIMEOUT_SEC

\* The rest of a cycle, lines 214-263: worker.out.get_nowait() with the
\* counter update, the state transitions with the dispatch of the agent, the
\* re-arm check and frame_i += 1.  The only shared object touched is
\* worker.out, once, by get_nowait; the clock is read within the one step.
MainTake ==
    /\ pc = "take"
    /\ LET got == out # << >>
           emb == IF got THEN Head(out).emb ELSE None
           hit == got /\ emb # None /\ IsMatch(emb)
           ph == IF got THEN PosAfter(emb, pos_hits) ELSE pos_hits
           nh == IF got THEN NegAfter(emb, neg_hits) ELSE NegOnEmpty(neg_hits)
           tr == IF GoesPresent(present, ph) THEN "toPresent"
                 ELSE IF GoesAbsent(present, nh) THEN "toAbsent" ELSE "none"
           fire == Dispatches(present, ph, dispatch_ready)
           \* poll() and Popen are only reached when launch_agent is called
           polls == IF fire THEN BOOLEAN ELSE {FALSE}
       IN
       \E running \in polls, popen_ok \in polls :
       LET r == LaunchAgent(agent_process, running, popen_ok)
           crash == fire /\ r.raised
           p1 == IF tr = "toPresent" THEN TRUE
                 ELSE IF tr = "toAbsent" THEN FALSE ELSE present
           ready1 == IF fire /\ ~r.raised THEN FALSE ELSE dispatch_ready
           last1 == IF tr = "toAbsent" THEN now ELSE last_absent_time
           re == ~crash /\ Rearms(p1, ready1, now, last1)
           e1 == IF fire THEN "fired"
                 ELSE IF tr = "toAbsent" /\ epoch = "fired" THEN "lost" ELSE epoch
       IN
       /\ out' = IF got THEN QGet(out) ELSE out
       /\ owed' = IF got THEN owed - 1 ELSE owed
       /\ pos_hits' = ph
       /\ neg_hits' = nh
       /\ present' = p1
       /\ last_absent_time' = last1
       /\ agent_process' = IF fire THEN r.proc ELSE agent_process
       /\ dispatch_ready' = IF re THEN TRUE ELSE ready1
       /\ frame_i' = IF crash THEN frame_i ELSE (frame_i + 1) % DETECT_INTERVAL
       /\ pc' = IF crash THEN "crashed" ELSE "read"
       /\ match_run' = IF ~got THEN match_run
                       ELSE IF hit THEN Min(MaxRun, match_run + 1) ELSE 0
       /\ miss_run' = IF ~got THEN miss_run
                      ELSE IF hit THEN 0 ELSE Min(MaxRun, miss_run + 1)
       /\ epoch' = IF re /\ e1 = "lost" THEN "rearmed" ELSE e1
       /\ cyc' = [took |-> IF ~got THEN "empty" ELSE IF hit THEN "match" ELSE "miss",
                  trans |-> IF ~present /\ p1 THEN "toPresent"
                            ELSE IF present /\ ~p1 THEN "toAbsent" ELSE "none",
                  armed |-> dispatch_ready,
                  late |-> (now - last_absent_time) >= ABSENT_TIMEOUT_SEC,
                  fired |-> IF fire THEN 1 ELSE 0,
                  launch |-> IF fire THEN r.outcome ELSE "none",
                  prev |-> IF fire THEN epoch ELSE "none",
                  rearm |-> (~dispatch_ready /\ ~crash /\ dispatch_ready'),
                  submit |-> "none",
                  id |-> IF got THEN Head(out).id ELSE -1]
    /\ UNCHANGED << q, stop_flag, cap_released, small, next_id, now >>
    /\ UNCHANGED workerVars

\* Ctrl+C anywhere in the loop: "except KeyboardInterrupt"
KeyboardInterrupt ==
    /\ pc \in {"read", "put", "take"}
    /\ pc' = "shutdown"
    /\ UNCHANGED << q, out, stop_flag, cap_released, small, next_id, frame_i,
                    agent_process, now, cyc, owed >>
    /\ UNCHANGED mainVars
    /\ UNCHANGED histVars
    /\ UNCHANGED workerVars

\* worker.stop_flag = True
MainStop ==
    /\ pc = "shutdown"
    /\ stop_flag' = TRUE
    /\ pc' = "release"
    /\ UNCHANGED << q, out, cap_released, small, next_id, frame_i, agent_process,
                    now, cyc, owed >>
    /\ UNCHANGED mainVars
    /\ UNCHANGED histVars
    /\ UNCHANGED workerVars

\* cap.release()
MainRelease ==
    /\ pc = "release"
    /\ cap_released' = TRUE
    /\ pc' = "done"
    /\ UNCHANGED << q, out, stop_flag, small, next_id, frame_i, agent_process,
                    now, cyc, owed >>
    /\ UNCHANGED mainVars
    /\ UNCHANGED histVars
    /\ UNCHANGED workerVars

\* ------------------------------------------------- DetectorWorker.run
mainAll == << pc, cap_released, small, next_id, frame_i, agent_process, cyc >>

\* "while not self.stop_flag"
WorkerCheck ==
    /\ wpc = "check"
    /\ wpc' = IF stop_flag THEN "exited" ELSE "get"
    /\ wlast' = "none"
    /\ UNCHANGED << q, out, stop_flag, now, frame_small, result, owed >>
    /\ UNCHANGED mainAll
    /\ UNCHANGED mainVars
    /\ UNCHANGED histVars

\* a get without timeout: the worker stays in the get while q is empty
AfterEmptyWaits == "get"

\* queue.Empty not followed by "continue": run() goes on to the extraction
AfterEmptyFallsThrough == "extract"

\* "except queue.Empty: continue": after the bounded wait of 0.2 s on an
\* empty q, run() is back at the test of stop_flag
AfterEmpty == "check"

\* self.q.get(timeout=0.2): a frame, or queue.Empty after the bounded wait
WorkerGet ==
    /\ wpc = "get"
    /\ IF q # << >>
       THEN /\ frame_small' = Head(q)
            /\ q' = QGet(q)
            /\ wpc' = "extract"
       ELSE /\ wpc' = AfterEmpty
            /\ UNCHANGED << q, frame_small >>
    /\ UNCHANGED << out, stop_flag, now, result, wlast, owed >>
    /\ UNCHANGED mainAll
    /\ UNCHANGED mainVars
    /\ UNCHANGED histVars

\* what self.app.get(frame_small) and the choice of the largest face can give:
\* an exception, no usable face (None), or an embedding, written as the
\* similarity the matcher computes for it
Extractions == {Raises, None} \cup SimValues

\* the step of run() after an extraction: an exception of app.get is not
\* caught in run(), so it ends the thread
AfterExtract(x) == IF x = Raises THEN "dead" ELSE "outfull"

\* lines 103-105 and 109: extraction and the choice of what to publish
WorkerExtract ==
    /\ wpc = "extract"
    /\ \E x \in Extractions :
         /\ wpc' = AfterExtract(x)
         /\ IF wpc' = "dead"
            THEN /\ result' = << >>
                 /\ wlast' = "raised"
                 /\ owed' = owed - 1
            ELSE /\ result' = << [id |-> frame_small, emb |-> x] >>
                 /\ wlast' = "none"
                 /\ UNCHANGED owed
    /\ UNCHANGED << q, out, stop_flag, now, frame_small >>
    /\ UNCHANGED mainAll
    /\ UNCHANGED mainVars
    /\ UNCHANGED histVars

\* "if not self.out.full()": a result found with the output full is dropped
WorkerOutFull ==
    /\ wpc = "outfull"
    /\ IF QFull(out)
       THEN /\ out' = Discard(out, result[1])
            /\ wpc' = "check"
            /\ wlast' = "dropped"
            /\ frame_small' = -1
            /\ result' = << >>
            /\ owed' = owed - 1
       ELSE /\ wpc' = "output"
            /\ UNCHANGED << out, wlast, frame_small, result, owed >>
    /\ UNCHANGED << q, stop_flag, now >>
    /\ UNCHANGED mainAll
    /\ UNCHANGED mainVars
    /\ UNCHANGED histVars

\* self.out.put(...): Queue.put waits while the queue is full
WorkerOutput ==
    /\ wpc = "output"
    /\ Len(out) < QMaxSize
    /\ out' = out \o result
    /\ wpc' = "check"
    /\ wlast' = "put"
    /\ frame_small' = -1
    /\ result' = << >>
    /\ UNCHANGED << q, stop_flag, now, owed >>
    /\ UNCHANGED mainAll
    /\ UNCHANGED mainVars
    /\ UNCHANGED histVars

\* the acquisition loop after a successful cap.read()
MainCycle ==
    \/ MainPut
    \/ MainTake

\* leaving the loop, and the shutdown path after it
MainExit ==
    \/ MainReadFail
    \/ KeyboardInterrupt
    \/ MainStop
    \/ MainRelease

Worker ==
    \/ WorkerCheck
    \/ WorkerGet
    \/ WorkerExtract
    \/ WorkerOutFull
    \/ WorkerOutput

\* frames not told apart
MainReadPlain == MainRead(1)

\* frames told apart
MainReadTagged == MainRead(NumFrameIds)

Next ==
    \/ Tick
    \/ MainReadPlain
    \/ MainCycle
    \/ Worker

\* The controller while the loop runs, over MaxTicks observations of the
\* clock advancing.
Spec == Init /\ [][Next]_vars

NextFrames ==
    \/ MainReadTagged
    \/ MainCycle
    \/ Worker

\* The hand-over of frames and results between the running loop and the
\* worker, the frames told apart, within one observation of the clock.
SpecFrames == Init /\ [][NextFrames]_vars

NextStop ==
    \/ MainReadPlain
    \/ MainCycle
    \/ MainExit
    \/ Worker

\* The loop with its ways out and the shutdown path, within one observation
\* of the clock.
SpecStop == Init /\ [][NextStop]_vars

\* The same with the worker thread scheduled again and again while it has a
\* step to take: it is a running thread, never waiting for main other than
\* in the bounded q.get.
SpecStopFair == SpecStop /\ WF_vars(Worker)

NextLive ==
    \/ MainReadPlain
    \/ MainCycle
    \/ Worker

\* The running loop and the worker, both threads scheduled again and again
\* while they have a step to take, cap.read() always giving a frame, within
\* one observation of the clock.
SpecLive ==
    /\ Init
    /\ [][NextLive]_vars
    /\ WF_vars(MainReadPlain \/ MainCycle)
    /\ WF_vars(Worker)

\* =================================================================
\* Properties
\* =================================================================

\* C1: between any two dispatches there is a Present->Absent transition
\* followed by a re-arm (a dispatch is either the first one or comes after a
\* loss and a re-arm since the last dispatch), and a re-arm only happens in
\* a cycle where the state is Absent, the arbiter was Disarmed, a loss has
\* followed the last dispatch and now - last_absent_time >= ABSENT_TIMEOUT_SEC.
C1_OneDispatchPerAbsence ==
    /\ cyc.fired = 1 => cyc.prev \in {"start", "rearmed"}
    /\ cyc.rearm => /\ ~present
                    /\ dispatch_ready
                    /\ epoch = "rearmed"
                    /\ now - last_absent_time >= ABSENT_TIMEOUT_SEC

\* a second dispatch, after a loss and a re-arm
C1_Witness == cyc.fired = 1 /\ cyc.prev = "rearmed"

\* C2: presence changes Absent->Present only when the last POS_STREAK
\* consumed outcomes were all Match, and Present->Absent only when the last
\* NEG_STREAK consumed outcomes were all Miss; cycles that consume nothing
\* do not count in the runs.
C2_TransitionsNeedStreaks ==
    /\ cyc.trans = "toPresent" => match_run >= POS_STREAK
    /\ cyc.trans = "toAbsent" => miss_run >= NEG_STREAK

\* presence lost after having been gained
C2_Witness == cyc.trans = "toAbsent" /\ cyc.took = "miss" /\ epoch = "lost"

\* C3: an Absent->Present transition while Armed calls launch_agent once in
\* that cycle and leaves the arbiter Disarmed; one while Disarmed does not
\* call it; a cycle without such a transition does not call it.
C3_DispatchOnArmedTransition ==
    /\ cyc.trans = "toPresent" /\ cyc.armed => cyc.fired = 1 /\ ~dispatch_ready
    /\ cyc.trans = "toPresent" /\ ~cyc.armed => cyc.fired = 0
    /\ cyc.trans # "toPresent" => cyc.fired = 0

\* presence regained while Disarmed
C3_Witness == cyc.trans = "toPresent" /\ ~cyc.armed /\ cyc.fired = 0

\* the cycle that has just ended began with the state Absent
BeganAbsent == cyc.trans = "toPresent" \/ (cyc.trans = "none" /\ ~present)

\* C4: a cycle that begins Disarmed and Absent since the loss at
\* last_absent_time ends Disarmed when it is evaluated at
\* now - last_absent_time < ABSENT_TIMEOUT_SEC and ends Armed when it is
\* evaluated at now - last_absent_time >= ABSENT_TIMEOUT_SEC, whatever it
\* took from the output queue; and an Absent->Present transition of an Armed
\* arbiter is driven by a Match and calls launch_agent once.
C4_RearmAtTimeout ==
    /\ (cyc.took # "no" /\ BeganAbsent /\ ~cyc.armed)
          => (dispatch_ready <=> cyc.late)
    /\ (cyc.trans = "toPresent" /\ cyc.armed)
          => (cyc.took = "match" /\ cyc.fired = 1)

\* C5: an Absent->Present transition at a time with
\* now - last_absent_time >= ABSENT_TIMEOUT_SEC calls launch_agent.
C5_DispatchAfterLongAbsence ==
    cyc.trans = "toPresent" /\ cyc.late => cyc.fired = 1

\* C6: an exception of the extraction is treated like "no face": the worker
\* goes on to publish the absence marker for that frame.
C6_ExtractionFailureIsMiss ==
    wlast = "raised"
       => wpc = "outfull" /\ result = << [id |-> frame_small, emb |-> None] >>

\* C7: when launch_agent cannot start the agent (Popen fails, the agent is
\* already running, or launching is disabled) the arbiter is Disarmed at the
\* end of that cycle, the loop goes on, and the next dispatch comes only
\* after a loss and a re-arm.
C7_FailedDispatchDisarms ==
    /\ cyc.launch \in {"failed", "already", "disabled"}
          => pc = "read" /\ ~dispatch_ready /\ epoch = "fired"
    /\ cyc.fired = 1 => cyc.prev \notin {"fired", "lost"}

\* a dispatch whose Popen failed
C7_Witness == cyc.launch = "failed" /\ pc = "read"

\* C8: the put of submit always finds room in q, and the put of the worker
\* always finds room in out: neither waits.
C8_PutsNeverWait ==
    /\ pc = "put" => Len(q) < QMaxSize
    /\ wpc = "output" => Len(out) < QMaxSize

\* both threads between their test and their put
C8_Witness == pc = "put" /\ wpc = "output"

\* C9: a slot's content is never overwritten: a submit that finds q full
\* leaves q as it is, a result that finds out full leaves out as it is.
C9_DropLeavesHeldItem ==
    [][ /\ (q # << >> /\ q' # << >>) => q' = q
        /\ (out # << >> /\ out' # << >>) => out' = out
        /\ (pc = "read" /\ cyc'.submit = "dropped") => (q # << >> /\ q' = q)
        /\ (wpc = "outfull" /\ wlast' = "dropped")
              => (out # << >> /\ out' = out) ]_vars

\* a frame was just dropped at a q that holds another frame
C9_Witness ==
    /\ pc = "take"
    /\ cyc.submit = "dropped"
    /\ q # << >>
    /\ Head(q) # next_id

\* C10: q holds at most 1 frame and out at most 1 result.
C10_SlotsHoldOne == Len(q) <= 1 /\ Len(out) <= 1

\* both slots full
C10_Witness == Len(q) = 1 /\ Len(out) = 1

\* the worker holds a frame it took from q and has not yet published,
\* dropped or lost
InWorker == wpc \in {"extract", "outfull", "output"}

\* the numbers of the frames on their way, oldest place first: the result in
\* out, the frame in the worker, the frame in q, the frame submit is putting
Pipeline ==
    [i \in 1..Len(out) |-> out[i].id]
      \o (IF InWorker THEN << frame_small >> ELSE << >>)
      \o q
      \o (IF pc = "put" THEN << small >> ELSE << >>)

\* C11: no frame gets two results: every frame accepted by submit is at one
\* place only (q, the worker, or out), until its one result is consumed,
\* dropped at a full out, or lost; so the accepted frames still owed a
\* result are exactly those in q, in the worker and in out, the numbers on
\* the way are pairwise different, and none is the number of the result
\* consumed in this cycle.
C11_OneResultPerFrame ==
    /\ owed = Len(q) + (IF InWorker THEN 1 ELSE 0) + Len(out)
    /\ \A i, j \in 1..Len(Pipeline) : i # j => Pipeline[i] # Pipeline[j]
    /\ \A i \in 1..Len(Pipeline) : Pipeline[i] # cyc.id

\* a result was consumed in the cycle in which the worker has dropped the
\* result of the following frame at a full out, a third frame being in q
C11_Witness ==
    /\ cyc.id # -1
    /\ wlast = "dropped"
    /\ owed = 1
    /\ Len(q) = 1

\* how many acceptances ago the frame x was accepted
Age(x) == (next_id - x + NumFrameIds) % NumFrameIds

\* C12: results are published and consumed in the order in which submit
\* accepted their frames: what is further on in the pipeline was accepted
\* earlier, and the result consumed in this cycle belongs to a frame
\* accepted before all that is still on its way.
C12_OrderOfAcceptance ==
    /\ \A i \in 1..Len(Pipeline) : Age(Pipeline[i]) > 0
    /\ \A i, j \in 1..Len(Pipeline) :
          i < j => Age(Pipeline[i]) > Age(Pipeline[j])
    /\ cyc.id # -1 =>
          /\ Age(cyc.id) > 0
          /\ \A i \in 1..Len(Pipeline) : Age(cyc.id) > Age(Pipeline[i])

\* a result was consumed, the result of a later frame is published and a
\* still later frame is in the worker
C12_Witness ==
    /\ cyc.id # -1
    /\ Len(out) = 1
    /\ InWorker

\* C13: a failed cap.read() ends the loop: from then on main is on the
\* shutdown path only, puts no frame in q, takes nothing from out, changes
\* neither the presence state nor the counters nor the arbiter, and calls
\* no launch_agent; and cap.release() comes only after stop_flag is set.
C13_ReadFailureEndsLoop ==
    [][ /\ cyc.submit = "readfail" =>
              /\ pc' \in {"shutdown", "release", "done"}
              /\ cyc' = cyc
              /\ Len(q') <= Len(q)
              /\ Len(out') >= Len(out)
              /\ UNCHANGED << present, pos_hits, neg_hits, last_absent_time,
                              dispatch_ready, agent_process, small, frame_i >>
        /\ cap_released' => stop_flag ]_vars

\* the shutdown after a failed read is complete, a published result being
\* left in out
C13_Witness ==
    /\ cyc.submit = "readfail"
    /\ pc = "done"
    /\ stop_flag
    /\ cap_released
    /\ out # << >>

\* C14: a cycle whose get_nowait finds out empty leaves pos_hits, neg_hits,
\* present and last_absent_time as they are and calls no launch_agent; of
\* the controller state only dispatch_ready may change, from False to True.
C14_EmptyCycleOnlyRearms ==
    [][ (pc = "take" /\ pc' # "take" /\ out = << >>) =>
            /\ UNCHANGED << pos_hits, neg_hits, present, last_absent_time,
                            agent_process, out >>
            /\ cyc'.took = "empty"
            /\ cyc'.fired = 0
            /\ cyc'.trans = "none"
            /\ dispatch_ready => dispatch_ready' ]_vars

\* a cycle that took nothing, between the first and the second Match of a
\* streak
C14_Witness ==
    /\ cyc.took = "empty"
    /\ ~present
    /\ pos_hits = 1
    /\ pc = "read"

\* C15: once stop_flag is set the worker thread ends: it is not held at an
\* empty q, its get giving up after the bounded wait and the loop testing
\* stop_flag again.
C15_WorkerStops == stop_flag ~> (wpc \in {"exited", "dead"})

\* the worker has left its loop at the test of stop_flag, q being empty
C15_Witness ==
    /\ stop_flag
    /\ wpc = "exited"
    /\ q = << >>

\* C16: pos_hits is the number of Match outcomes consumed since the last
\* Miss, capped at POS_STREAK, and neg_hits the number of Miss outcomes
\* consumed since the last Match, capped at NEG_STREAK (a Match sets
\* neg_hits to 0 and adds 1 to pos_hits up to the cap, a Miss the other way
\* round); so 0 <= pos_hits <= POS_STREAK, 0 <= neg_hits <= NEG_STREAK, and
\* the two are never both non-zero.
C16_StreakCounters ==
    /\ pos_hits = Min(POS_STREAK, match_run)
    /\ neg_hits = Min(NEG_STREAK, miss_run)
    /\ pos_hits \in 0..POS_STREAK
    /\ neg_hits \in 0..NEG_STREAK
    /\ pos_hits = 0 \/ neg_hits = 0

\* a Match consumed with pos_hits already at its cap
C16_Witness ==
    /\ cyc.took = "match"
    /\ match_run = POS_STREAK + 1
    /\ pos_hits = POS_STREAK
    /\ neg_hits = 0

\* C17: a presence transition happens in the cycle that consumes the outcome
\* completing the streak: a cycle that consumes a Match ends Present when
\* that Match is at least the POS_STREAK-th in a row and makes no transition
\* when it is not; a cycle that consumes a Miss ends Absent when that Miss
\* is at least the NEG_STREAK-th in a row and makes no transition when it
\* is not.
C17_TransitionInStreakCycle ==
    /\ (cyc.took = "match" /\ match_run >= POS_STREAK) => present
    /\ (cyc.took = "match" /\ match_run < POS_STREAK) => cyc.trans = "none"
    /\ (cyc.took = "miss" /\ miss_run >= NEG_STREAK) => ~present
    /\ (cyc.took = "miss" /\ miss_run < NEG_STREAK) => cyc.trans = "none"
    /\ (cyc.trans = "toPresent" /\ cyc.took = "match") => match_run = POS_STREAK
    /\ (cyc.trans = "toAbsent" /\ cyc.took = "miss") => miss_run = NEG_STREAK

\* NEG_STREAK - 1 Miss outcomes in a row consumed, still Present
C17_Witness ==
    /\ cyc.took = "miss"
    /\ miss_run = NEG_STREAK - 1
    /\ present

\* C18: the arbiter starts Armed with last_absent_time the time of the
\* start, and stays so until the first Absent->Present transition, which
\* calls launch_agent whatever the time elapsed: before the first dispatch
\* the state is Absent and Armed, and no transition to Present leaves the
\* run without a dispatch.
C18_FirstDetectionDispatches ==
    /\ epoch = "start" => /\ ~present
                          /\ dispatch_ready
                          /\ last_absent_time = 0
    /\ cyc.trans = "toPresent" => epoch # "start"
    /\ cyc.prev = "start" => cyc.fired = 1 /\ cyc.trans = "toPresent"

\* the first dispatch, at the very time of the start
C18_Witness ==
    /\ cyc.fired = 1
    /\ cyc.prev = "start"
    /\ now = 0
    /\ ~cyc.late

\* the accepted frames whose result is neither published nor dropped: the
\* frame in q and the frame the worker holds
InFlight == Len(q) + (IF InWorker THEN 1 ELSE 0)

\* C19: at most one frame is in flight: the frame in q and the frame the
\* worker has taken, counted together, are never more than 1.
C19_AtMostOneInFlight == InFlight <= 1

\* C19, amended: at most two frames are in flight, the frame in q and the
\* frame the worker has taken, counted together, are never more than 2.
C19_AtMostTwoInFlight == InFlight <= 2

\* a frame in q while the worker is extracting the one before it
C19_Witness ==
    /\ Len(q) = 1
    /\ wpc = "extract"
    /\ InFlight = 2

\* C20: whenever the state is Present the arbiter is Disarmed, at the end of
\* a cycle as within it.
C20_PresentIsDisarmed == present => ~dispatch_ready

\* Present for ABSENT_TIMEOUT_SEC and more after the last loss, a cycle just
\* ended, and still Disarmed
C20_Witness ==
    /\ pc = "read"
    /\ present
    /\ epoch = "fired"
    /\ cyc.took # "no"
    /\ now - last_absent_time >= ABSENT_TIMEOUT_SEC
    /\ ~dispatch_ready

\* C21: the counters agree with the presence state: pos_hits = POS_STREAK
\* only when Present and neg_hits = NEG_STREAK only when Absent; so the
\* transition tests, evaluated in every cycle, fire only in a cycle that
\* consumed an outcome: to Present on a Match, to Absent on a Miss.
C21_CountersAgreeWithState ==
    /\ pos_hits = POS_STREAK => present
    /\ neg_hits = NEG_STREAK => ~present
    /\ cyc.trans = "toPresent" => cyc.took = "match"
    /\ cyc.trans = "toAbsent" => cyc.took = "miss"

\* a cycle that took nothing and ended Absent with neg_hits at NEG_STREAK,
\* after presence was lost
C21_Witness ==
    /\ pc = "read"
    /\ cyc.took = "empty"
    /\ neg_hits = NEG_STREAK
    /\ ~present
    /\ epoch = "lost"

\* an extraction has just given something else than a matching embedding:
\* an exception, no usable face, or a similarity below SIM_THRESH
BadExtraction ==
    \/ wlast = "raised"
    \/ result # << >> /\ (result[1].emb = None \/ ~IsMatch(result[1].emb))

\* C22: with both threads scheduled fairly and cap.read() always giving a
\* frame, a frame in q is eventually taken by the worker (as long as the
\* worker thread lives), and the state eventually becomes Present unless
\* some extraction gives something else than a matching embedding.
C22_DetectionIsLive ==
    /\ (q # << >>) ~> (q = << >> \/ wpc = "dead")
    /\ <>(present \/ BadExtraction)

\* Present reached on POS_STREAK Match outcomes while the worker has dropped
\* a result at a full out and a further frame waits in q
C22_Witness ==
    /\ cyc.trans = "toPresent"
    /\ match_run = POS_STREAK
    /\ miss_run = 0
    /\ wlast = "dropped"
    /\ q # << >>

====
